---- MODULE Spec2Model ----
(***************************************************************************)
(* Multi-exchange price aggregation and spread computation.                *)
(*                                                                         *)
(*   price_sources.py   SYMBOLS, _get_json, fetch_usdt_usd_rate, the seven *)
(*                      exchange adapters, EXCHANGES,                      *)
(*                      fetch_prices_for_token                             *)
(*   bot.py             fetch_all_prices; CHAT_SETTINGS, the defaults, the *)
(*                      job queue and the command handlers                 *)
(*   compare_prices.py  compute_spreads, format_markdown                   *)
(*                                                                         *)
(* Floats are modelled by the integers they hold (small integers are exact *)
(* in binary floating point, and so are their products and differences);   *)
(* the one quotient of the program, spread_pct, is kept as an exact        *)
(* fraction.  Python dicts are modelled as sequences of <<key, value>>     *)
(* pairs with distinct keys, in insertion order.  Instrument symbols are   *)
(* sequences of one-character strings, so that str.endswith is computed.   *)
(*                                                                         *)
(* Three specifications: Spec, the aggregation rounds of one snapshot;     *)
(* SpreadSpec, compute_spreads and format_markdown on arbitrary PriceMaps; *)
(* BotSpec, the commands of two chats.                                     *)
(***************************************************************************)
EXTENDS Integers, Sequences, FiniteSets, TLC

VARIABLES
    tokens,      \* fetch_all_prices: the requested token list
    exchanges,   \* fetch_all_prices: the requested exchange list
    ti,          \* fetch_all_prices: 1-based position of the for loop
    pc,          \* where control is
    tasks,       \* fetch_prices_for_token: the adapter tasks, in creation order
    rate_task,   \* fetch_prices_for_token: usdt_rate_task
    results,     \* fetch_prices_for_token: what asyncio.gather returned
    usdt_usd,    \* fetch_prices_for_token: the awaited rate
    calls,       \* adapter coroutines created in the current round, per exchange
    out,         \* fetch_prices_for_token: the PriceMap of the last finished round
    stored,      \* history: the assignments out[ex] = price of that round, in order
    prices,      \* token -> PriceMap
    spreads,     \* compute_spreads: token -> report
    text,        \* format_markdown: the rendered lines
    divs,        \* divisions performed by compute_spreads
    rounds,      \* history: the PriceMap each finished round returned, in order
    out_of_order, \* history: a task of the current round completed while a
                 \* task created before it was still pending
    CHAT_SETTINGS, \* bot.py: chat id -> settings dict
    heap,        \* the list objects settings refer to: reference -> list
    jobs,        \* the job queue: the scheduled repeating jobs
    last_cmd     \* history: the last command handled, its chat and outcome

snapvars == <<tokens, exchanges, ti, pc, tasks, rate_task, results,
              usdt_usd, calls, out, stored, prices, spreads, text, divs,
              rounds, out_of_order>>
botvars == <<CHAT_SETTINGS, heap, jobs, last_cmd>>
vars == <<snapvars, botvars>>

-----------------------------------------------------------------------------
(* Bounds of the model *)

MaxTasks == 2          \* Len(tokens) * Len(exchanges) of one snapshot
MaxPrice == 1          \* prices an exchange may report: -1 .. MaxPrice
MaxRate == 2           \* USDT/USD rates the reference venue may report: 0 .. MaxRate
MaxEntries == 3        \* entries of the PriceMaps handed to compute_spreads

PriceVals == (-1)..MaxPrice
RateVals == 0..MaxRate

-----------------------------------------------------------------------------
(* Python values *)

None == [isNone |-> TRUE]
Some(v) == [isNone |-> FALSE, val |-> v]

\* dict as a sequence of <<key, value>> pairs, distinct keys, insertion order
DictKeys(d) == {d[i][1] : i \in 1..Len(d)}
DictHas(d, k) == k \in DictKeys(d)
DictGet(d, k) == d[CHOOSE i \in 1..Len(d) : d[i][1] = k][2]
DictSet(d, k, v) ==
    IF DictHas(d, k)
    THEN [i \in 1..Len(d) |-> IF d[i][1] = k THEN <<k, v>> ELSE d[i]]
    ELSE Append(d, <<k, v>>)

EndsWith(s, suffix) ==
    /\ Len(s) >= Len(suffix)
    /\ SubSeq(s, Len(s) - Len(suffix) + 1, Len(s)) = suffix

-----------------------------------------------------------------------------
(* price_sources.py: the Symbol Registry *)

USDT == <<"U", "S", "D", "T">>
USD == <<"U", "S", "D">>
Dash == <<"-">>
BTC == <<"B", "T", "C">>
ETH == <<"E", "T", "H">>
SOL == <<"S", "O", "L">>
BNB == <<"B", "N", "B">>

SYMBOLS ==
    [BTC |-> [binance  |-> Some(BTC \o USDT),
              coinbase |-> Some(BTC \o Dash \o USD),
              kraken   |-> Some(<<"X", "B", "T">> \o USD),
              kucoin   |-> Some(BTC \o Dash \o USDT),
              bybit    |-> Some(BTC \o USDT),
              okx      |-> Some(BTC \o Dash \o USDT),
              bitstamp |-> Some(<<"b", "t", "c", "u", "s", "d">>)],
     ETH |-> [binance  |-> Some(ETH \o USDT),
              coinbase |-> Some(ETH \o Dash \o USD),
              kraken   |-> Some(ETH \o USD),
              kucoin   |-> Some(ETH \o Dash \o USDT),
              bybit    |-> Some(ETH \o USDT),
              okx      |-> Some(ETH \o Dash \o USDT),
              bitstamp |-> Some(<<"e", "t", "h", "u", "s", "d">>)],
     SOL |-> [binance  |-> Some(SOL \o USDT),
              coinbase |-> Some(SOL \o Dash \o USD),
              kraken   |-> Some(SOL \o USD),
              kucoin   |-> Some(SOL \o Dash \o USDT),
              bybit    |-> Some(SOL \o USDT),
              okx      |-> Some(SOL \o Dash \o USDT),
              bitstamp |-> Some(<<"s", "o", "l", "u", "s", "d">>)],
     BNB |-> [binance  |-> Some(BNB \o USDT),
              kraken   |-> None,
              kucoin   |-> Some(BNB \o Dash \o USDT),
              bybit    |-> Some(BNB \o USDT),
              okx      |-> Some(BNB \o Dash \o USDT),
              bitstamp |-> None]]

\* SYMBOLS.get(token, {}).get(ex)
Lookup(token, ex) ==
    IF token \in DOMAIN SYMBOLS /\ ex \in DOMAIN SYMBOLS[token]
    THEN SYMBOLS[token][ex]
    ELSE None

-----------------------------------------------------------------------------
(* price_sources.py: HTTP and the adapters *)

\* What one GET may come back with.  "neterr": connection error or timeout;
\* "non200": a status other than 200; the others are JSON bodies: "empty" a
\* falsy document, "nofield" one without the field the adapter looks for,
\* "malformed" the field present with content of the wrong shape or type,
\* "badnum" a price text float() rejects, "price" a price text float() reads.
FailureKinds == {"neterr", "non200", "empty", "nofield", "malformed", "badnum"}
Response(vals) ==
    [kind : FailureKinds] \cup [kind : {"price"}, val : vals]

\* _get_json: None on an exception or a non-200 status, else the document
_get_json(resp) ==
    IF resp.kind \in {"neterr", "non200"} THEN None ELSE Some(resp)

\* `not data`
Falsy(data) == data.isNone \/ data.val.kind = "empty"

\* What an awaited coroutine produced
RNone == [kind |-> "none"]
RExc == [kind |-> "exc"]
ROk(v) == [kind |-> "ok", val |-> v]

\* float(x) on the extracted field
ParseFloat(doc) == IF doc.kind = "price" THEN ROk(doc.val) ELSE RExc

Quote(symbol) == IF EndsWith(symbol.val, USDT) THEN "USDT" ELSE "USD"

\* An adapter whose body reads a flat field and parses it with no handler
\* of its own around the parse; quote is the quote currency it reports.
FlatPrice(data, quote) ==
    IF Falsy(data) \/ data.val.kind = "nofield"
    THEN RNone
    ELSE LET f == ParseFloat(data.val)
         IN IF f.kind = "ok" THEN ROk(<<f.val, quote>>) ELSE RExc

\* An adapter whose extraction and parse sit inside try/except
GuardedPrice(data, quote) ==
    IF Falsy(data) \/ data.val.kind = "nofield"
    THEN RNone
    ELSE LET f == ParseFloat(data.val)
         IN IF f.kind = "ok" THEN ROk(<<f.val, quote>>) ELSE RNone

fetch_usdt_usd_rate(resp) ==
    LET data == _get_json(resp)
    IN IF ~Falsy(data) /\ data.val.kind # "nofield"
       THEN ParseFloat(data.val)
       ELSE ROk(1)

binance_price(symbol, resp) ==
    IF symbol.isNone THEN RNone ELSE FlatPrice(_get_json(resp), Quote(symbol))

coinbase_price(symbol, resp) ==
    IF symbol.isNone THEN RNone ELSE FlatPrice(_get_json(resp), "USD")

kraken_price(symbol, resp) ==
    IF symbol.isNone THEN RNone ELSE FlatPrice(_get_json(resp), "USD")

kucoin_price(symbol, resp) ==
    IF symbol.isNone THEN RNone ELSE FlatPrice(_get_json(resp), Quote(symbol))

bybit_price(symbol, resp) ==
    IF symbol.isNone THEN RNone
    ELSE GuardedPrice(_get_json(resp), Quote(symbol))

okx_price(symbol, resp) ==
    IF symbol.isNone THEN RNone
    ELSE GuardedPrice(_get_json(resp), Quote(symbol))

bitstamp_price(symbol, resp) ==
    IF symbol.isNone THEN RNone ELSE FlatPrice(_get_json(resp), "USD")

\* (A request whose symbol parameter is None fails inside _get_json, which
\* returns None; the adapters that do not test the symbol themselves then
\* return None on `not data`.)

\* The keys of EXCHANGES, and the call EXCHANGES[ex](session, symbol)
ExchangeNames ==
    {"binance", "coinbase", "kraken", "kucoin", "bybit", "okx", "bitstamp"}

EXCHANGES(ex, symbol, resp) ==
    CASE ex = "binance"  -> binance_price(symbol, resp)
      [] ex = "coinbase" -> coinbase_price(symbol, resp)
      [] ex = "kraken"   -> kraken_price(symbol, resp)
      [] ex = "kucoin"   -> kucoin_price(symbol, resp)
      [] ex = "bybit"    -> bybit_price(symbol, resp)
      [] ex = "okx"      -> okx_price(symbol, resp)
      [] ex = "bitstamp" -> bitstamp_price(symbol, resp)

-----------------------------------------------------------------------------
(* price_sources.py: fetch_prices_for_token *)

\* Mutant of Skipped: only `if not fn`, the test of the symbol forgotten
SkippedFnOnly(token, ex) == ex \notin ExchangeNames

\* `if not fn or sym is None: continue`
Skipped(token, ex) == ex \notin ExchangeNames \/ Lookup(token, ex).isNone

\* Mutant of Normalize: the rate applied whatever the quote currency
NormalizeAlways(price, quote, rate) == price * rate

\* identity when the quote is USD, times the rate when it is USDT
Normalize(price, quote, rate) == IF quote = "USDT" THEN price * rate ELSE price

\* Mutant of Collect: `i += 1` placed after the test of the result, so that
\* a failed result is read again for the next exchange
RECURSIVE CollectStaleIndex(_, _, _, _, _, _, _)
CollectStaleIndex(token, exs, k, i, res, rate, acc) ==
    IF k > Len(exs) THEN acc
    ELSE IF Skipped(token, exs[k])
         THEN CollectStaleIndex(token, exs, k + 1, i, res, rate, acc)
    ELSE IF res[i].kind \in {"exc", "none"}
         THEN CollectStaleIndex(token, exs, k + 1, i, res, rate, acc)
    ELSE LET price == Normalize(res[i].val[1], res[i].val[2], rate)
         IN CollectStaleIndex(token, exs, k + 1, i + 1, res, rate,
                              [out    |-> DictSet(acc.out, exs[k], price),
                               stored |-> Append(acc.stored, <<exs[k], price>>)])

\* The second loop: k walks the exchanges, i the results; acc.out is `out`
\* and acc.stored the assignments out[ex] = price made so far.
RECURSIVE Collect(_, _, _, _, _, _, _)
Collect(token, exs, k, i, res, rate, acc) ==
    IF k > Len(exs) THEN acc
    ELSE IF Skipped(token, exs[k])
         THEN Collect(token, exs, k + 1, i, res, rate, acc)
    ELSE IF res[i].kind \in {"exc", "none"}
         THEN Collect(token, exs, k + 1, i + 1, res, rate, acc)
    ELSE LET price == Normalize(res[i].val[1], res[i].val[2], rate)
         IN Collect(token, exs, k + 1, i + 1, res, rate,
                    [out    |-> DictSet(acc.out, exs[k], price),
                     stored |-> Append(acc.stored, <<exs[k], price>>)])

\* The first loop: one task per exchange that is not skipped, in list order
RECURSIVE CreateTasks(_, _, _)
CreateTasks(token, exs, k) ==
    IF k > Len(exs) THEN <<>>
    ELSE IF Skipped(token, exs[k])
         THEN CreateTasks(token, exs, k + 1)
    ELSE <<[ex |-> exs[k], sym |-> Lookup(token, exs[k]),
            state |-> "pending", res |-> RNone]>>
         \o CreateTasks(token, exs, k + 1)

\* usdt_rate_task before it completes; once done it holds the outcome and,
\* as history, whether the reference ticker call failed.
Pending == [state |-> "pending", res |-> RNone]

\* fetch_all_prices enters fetch_prices_for_token for tokens[ti]: the rate
\* task and the adapter tasks are created, then the coroutine awaits gather.
Launch ==
    /\ pc = "call"
    /\ ti <= Len(tokens)
    /\ LET t == CreateTasks(tokens[ti], exchanges, 1)
       IN /\ tasks' = t
          /\ calls' = [ex \in DOMAIN calls |->
                          Cardinality({i \in 1..Len(t) : t[i].ex = ex})]
    /\ rate_task' = Pending
    /\ results' = <<>>
    /\ out_of_order' = FALSE
    /\ pc' = "gather"
    /\ UNCHANGED <<tokens, exchanges, ti, usdt_usd, out, stored, prices,
                   spreads, text, divs,
                   rounds, botvars>>

\* One adapter task runs to completion on whatever its request came back with
AdapterComplete(i) ==
    /\ pc = "gather"
    /\ tasks[i].state = "pending"
    /\ \E resp \in Response(PriceVals) :
          tasks' = [tasks EXCEPT ![i] =
                      [ex |-> tasks[i].ex, sym |-> tasks[i].sym,
                       state |-> "done",
                       res |-> EXCHANGES(tasks[i].ex, tasks[i].sym, resp)]]
    /\ out_of_order' = (out_of_order \/ \E j \in 1..(i - 1) :
                                          tasks[j].state = "pending")
    /\ UNCHANGED <<tokens, exchanges, ti, pc, rate_task, results, usdt_usd,
                   calls, out, stored, prices, spreads, text, divs,
                   rounds, botvars>>

\* The rate task runs to completion
RateComplete ==
    /\ pc \in {"gather", "rate"}
    /\ rate_task.state = "pending"
    /\ \E resp \in Response(RateVals) :
          rate_task' = [state  |-> "done",
                        res    |-> fetch_usdt_usd_rate(resp),
                        failed |-> resp.kind # "price"]
    /\ UNCHANGED <<tokens, exchanges, ti, pc, tasks, results, usdt_usd,
                   calls, out, stored, prices, spreads, text, divs,
                   rounds, out_of_order, botvars>>

\* Mutant of GatherReturn: results handed over in another order than the
\* tasks' own when the tasks completed out of order (for two tasks, the
\* order of completion)
GatherReturnOutOfOrder ==
    /\ pc = "gather"
    /\ \A i \in 1..Len(tasks) : tasks[i].state = "done"
    /\ results' = [i \in 1..Len(tasks) |->
                      IF out_of_order THEN tasks[Len(tasks) + 1 - i].res
                      ELSE tasks[i].res]
    /\ pc' = "rate"
    /\ UNCHANGED <<tokens, exchanges, ti, tasks, rate_task, usdt_usd, calls,
                   out, stored, prices, spreads, text, divs,
                   rounds, out_of_order, botvars>>

\* Mutant of GatherReturn: the await over as soon as one task is done, the
\* others left pending
GatherReturnFirstCompleted ==
    /\ pc = "gather"
    /\ \/ tasks = <<>>
       \/ \E i \in 1..Len(tasks) : tasks[i].state = "done"
    /\ results' = [i \in 1..Len(tasks) |-> tasks[i].res]
    /\ pc' = "rate"
    /\ UNCHANGED <<tokens, exchanges, ti, tasks, rate_task, usdt_usd, calls,
                   out, stored, prices, spreads, text, divs,
                   rounds, out_of_order, botvars>>

\* results = await asyncio.gather(*tasks, return_exceptions=True)
GatherReturn ==
    /\ pc = "gather"
    /\ \A i \in 1..Len(tasks) : tasks[i].state = "done"
    /\ results' = [i \in 1..Len(tasks) |-> tasks[i].res]
    /\ pc' = "rate"
    /\ UNCHANGED <<tokens, exchanges, ti, tasks, rate_task, usdt_usd, calls,
                   out, stored, prices, spreads, text, divs,
                   rounds, out_of_order, botvars>>

\* Mutant of RoundReturn: the PriceMap stored under the first token of the
\* list instead of the round's own
RoundReturnFirstKey ==
    /\ pc = "rate"
    /\ rate_task.state = "done"
    /\ rate_task.res.kind = "ok"
    /\ usdt_usd' = rate_task.res.val
    /\ LET r == Collect(tokens[ti], exchanges, 1, 1, results,
                         rate_task.res.val, [out |-> <<>>, stored |-> <<>>])
       IN /\ out' = r.out
          /\ stored' = r.stored
          /\ prices' = DictSet(prices, tokens[1], r.out)
          /\ rounds' = Append(rounds, r.out)
    /\ ti' = ti + 1
    /\ pc' = "call"
    /\ UNCHANGED <<tokens, exchanges, tasks, rate_task, results, calls,
                   spreads, text, divs,
                   out_of_order, botvars>>

\* usdt_usd = await usdt_rate_task succeeds; the second loop builds the
\* PriceMap, which fetch_all_prices stores under the token.
RoundReturn ==
    /\ pc = "rate"
    /\ rate_task.state = "done"
    /\ rate_task.res.kind = "ok"
    /\ usdt_usd' = rate_task.res.val
    /\ LET r == Collect(tokens[ti], exchanges, 1, 1, results,
                         rate_task.res.val, [out |-> <<>>, stored |-> <<>>])
       IN /\ out' = r.out
          /\ stored' = r.stored
          /\ prices' = DictSet(prices, tokens[ti], r.out)
          /\ rounds' = Append(rounds, r.out)
    /\ ti' = ti + 1
    /\ pc' = "call"
    /\ UNCHANGED <<tokens, exchanges, tasks, rate_task, results, calls,
                   spreads, text, divs,
                   out_of_order, botvars>>

\* usdt_usd = await usdt_rate_task re-raises the task's exception; neither
\* fetch_prices_for_token nor fetch_all_prices handles it.
RoundRaise ==
    /\ pc = "rate"
    /\ rate_task.state = "done"
    /\ rate_task.res.kind = "exc"
    /\ pc' = "raised"
    /\ UNCHANGED <<tokens, exchanges, ti, tasks, rate_task, results,
                   usdt_usd, calls, out, stored, prices, spreads, text, divs,
                   rounds, out_of_order, botvars>>

\* fetch_all_prices: the loop is over, return prices
AllReturn ==
    /\ pc = "call"
    /\ ti > Len(tokens)
    /\ pc' = "done"
    /\ UNCHANGED <<tokens, exchanges, ti, tasks, rate_task, results,
                   usdt_usd, calls, out, stored, prices, spreads, text, divs,
                   rounds, out_of_order, botvars>>

-----------------------------------------------------------------------------
(* compare_prices.py: compute_spreads *)

\* spread_abs / min_p, as the exact fraction num/den with den > 0; the
\* quotient of a division by zero is the error Python raises.
ZeroDivisionError == [error |-> "ZeroDivisionError"]
Div(a, b) ==
    IF b = 0 THEN ZeroDivisionError
    ELSE IF b > 0 THEN [num |-> a, den |-> b]
    ELSE [num |-> 0 - a, den |-> 0 - b]
Times(q, n) ==
    IF q = ZeroDivisionError THEN q ELSE [num |-> q.num * n, den |-> q.den]
Float(n) == [num |-> n, den |-> 1]
IsNumber(q) == q # ZeroDivisionError
GE(q, n) == IsNumber(q) /\ q.num >= n * q.den
IsZero(q) == IsNumber(q) /\ q.num = 0

\* Mutant of InsertItem: the order of sorted(..., reverse=True)
InsertItemDescending(s, kv) ==
    LET p == Cardinality({i \in 1..Len(s) : s[i][2] >= kv[2]})
    IN SubSeq(s, 1, p) \o <<kv>> \o SubSeq(s, p + 1, Len(s))

\* Mutant of InsertItem: an ascending sort that is not stable, an item
\* going in front of the items of equal price already placed
InsertItemBeforeEqual(s, kv) ==
    LET p == Cardinality({i \in 1..Len(s) : s[i][2] < kv[2]})
    IN SubSeq(s, 1, p) \o <<kv>> \o SubSeq(s, p + 1, Len(s))

\* sorted(mp.items(), key=lambda kv: kv[1]): a stable ascending sort.  Each
\* item goes behind the items already placed whose price is not greater.
InsertItem(s, kv) ==
    LET p == Cardinality({i \in 1..Len(s) : s[i][2] <= kv[2]})
    IN SubSeq(s, 1, p) \o <<kv>> \o SubSeq(s, p + 1, Len(s))

RECURSIVE SortedFrom(_, _, _)
SortedFrom(mp, k, acc) ==
    IF k > Len(mp) THEN acc
    ELSE SortedFrom(mp, k + 1, InsertItem(acc, mp[k]))

sorted(mp) == SortedFrom(mp, 1, <<>>)

\* The summary text of a report without data
NoData == "no data"

\* Mutant of SpreadOf: max read from items[0] as min is
SpreadOfMaxFromFirst(mp) ==
    IF mp = <<>>
    THEN [report |-> [table |-> <<>>, summary |-> NoData], divs |-> 0]
    ELSE LET items == sorted(mp)
             min_kv == items[1]
             max_kv == items[1]
             min_p == min_kv[2]
             max_p == max_kv[2]
             spread_abs == max_p - min_p
             spread_pct == IF min_p # 0
                           THEN Times(Div(spread_abs, min_p), 100)
                           ELSE Float(0)
         IN [report |-> [min        |-> min_kv,
                         max        |-> max_kv,
                         spread_abs |-> spread_abs,
                         spread_pct |-> spread_pct,
                         best_buy   |-> min_kv,
                         best_sell  |-> max_kv,
                         table      |-> items],
             divs |-> IF min_p # 0 THEN 1 ELSE 0]

\* Mutant of SpreadOf: the division made without the `if min_p` guard
SpreadOfUnguarded(mp) ==
    IF mp = <<>>
    THEN [report |-> [table |-> <<>>, summary |-> NoData], divs |-> 0]
    ELSE LET items == sorted(mp)
             min_kv == items[1]
             max_kv == items[Len(items)]
             min_p == min_kv[2]
             max_p == max_kv[2]
             spread_abs == max_p - min_p
             spread_pct == Times(Div(spread_abs, min_p), 100)
         IN [report |-> [min        |-> min_kv,
                         max        |-> max_kv,
                         spread_abs |-> spread_abs,
                         spread_pct |-> spread_pct,
                         best_buy   |-> min_kv,
                         best_sell  |-> max_kv,
                         table      |-> items],
             divs |-> 1]

\* One iteration of the loop, for one token's PriceMap: the report stored
\* under the token and the number of divisions carried out for it.
SpreadOf(mp) ==
    IF mp = <<>>
    THEN [report |-> [table |-> <<>>, summary |-> NoData], divs |-> 0]
    ELSE LET items == sorted(mp)
             min_kv == items[1]
             max_kv == items[Len(items)]
             min_p == min_kv[2]
             max_p == max_kv[2]
             spread_abs == max_p - min_p
             spread_pct == IF min_p # 0
                           THEN Times(Div(spread_abs, min_p), 100)
                           ELSE Float(0)
         IN [report |-> [min        |-> min_kv,
                         max        |-> max_kv,
                         spread_abs |-> spread_abs,
                         spread_pct |-> spread_pct,
                         best_buy   |-> min_kv,
                         best_sell  |-> max_kv,
                         table      |-> items],
             divs |-> IF min_p # 0 THEN 1 ELSE 0]

\* for token, mp in prices.items(): out[token] = ...
RECURSIVE SpreadLoop(_, _, _)
SpreadLoop(ps, k, acc) ==
    IF k > Len(ps) THEN acc
    ELSE LET r == SpreadOf(ps[k][2])
         IN SpreadLoop(ps, k + 1,
                       [out  |-> DictSet(acc.out, ps[k][1], r.report),
                        divs |-> acc.divs + r.divs])

compute_spreads(ps) == SpreadLoop(ps, 1, [out |-> <<>>, divs |-> 0])

-----------------------------------------------------------------------------
(* compare_prices.py: format_markdown *)

\* s.get("table")
GetTable(s) == IF "table" \in DOMAIN s THEN s.table ELSE <<>>

\* The lines for one token, each a tuple of its kind and the values it shows
\* (numbers are carried unrendered); KeyError when a key the code indexes
\* is missing.
KeyError == [ok |-> FALSE, error |-> "KeyError"]
Lines(l) == [ok |-> TRUE, lines |-> l]

TableLines(table) == [i \in 1..Len(table) |-> <<"row", table[i][1], table[i][2]>>]

\* Mutant of TokenLines: the `if not s.get("table")` branch left out
TokenLinesNoGuard(token, sp, threshold_pct) ==
    IF ~DictHas(sp, token) THEN KeyError
    ELSE LET s == DictGet(sp, token)
         IN IF {"min", "max", "spread_abs", "spread_pct"} \subseteq DOMAIN s
            THEN Lines(<<<<"token", token>>,
                         <<"buy", s.min[1], s.min[2]>>,
                         <<"sell", s.max[1], s.max[2]>>,
                         <<"diff", s.spread_abs, s.spread_pct>>>>
                       \o (IF GE(s.spread_pct, threshold_pct)
                           THEN <<<<"alert", threshold_pct>>>> ELSE <<>>)
                       \o <<<<"exchanges">>>>
                       \o TableLines(s.table))
            ELSE KeyError

TokenLines(token, sp, threshold_pct) ==
    IF ~DictHas(sp, token) THEN KeyError
    ELSE LET s == DictGet(sp, token)
         IN IF GetTable(s) = <<>>
            THEN Lines(<<<<"token", token>>, <<"_no data_">>>>)
            ELSE IF {"min", "max", "spread_abs", "spread_pct"} \subseteq DOMAIN s
            THEN Lines(<<<<"token", token>>,
                         <<"buy", s.min[1], s.min[2]>>,
                         <<"sell", s.max[1], s.max[2]>>,
                         <<"diff", s.spread_abs, s.spread_pct>>>>
                       \o (IF GE(s.spread_pct, threshold_pct)
                           THEN <<<<"alert", threshold_pct>>>> ELSE <<>>)
                       \o <<<<"exchanges">>>>
                       \o TableLines(s.table))
            ELSE KeyError

RECURSIVE FormatLoop(_, _, _, _, _)
FormatLoop(ps, sp, threshold_pct, k, lines) ==
    IF k > Len(ps) THEN Lines(lines)
    ELSE LET tl == TokenLines(ps[k][1], sp, threshold_pct)
         IN IF ~tl.ok THEN KeyError
            ELSE FormatLoop(ps, sp, threshold_pct, k + 1, lines \o tl.lines)

format_markdown(ps, sp, threshold_pct) ==
    FormatLoop(ps, sp, threshold_pct, 1, <<<<"header">>>>)

-----------------------------------------------------------------------------
(* bot.py: send_snapshot, after fetch_all_prices has returned *)

Thresholds == {0, 50, 300}

ComputeSpreads ==
    /\ pc = "done"
    /\ LET r == compute_spreads(prices)
       IN /\ spreads' = r.out
          /\ divs' = r.divs
    /\ pc' = "spreads"
    /\ UNCHANGED <<tokens, exchanges, ti, tasks, rate_task, results,
                   usdt_usd, calls, out, stored, prices, text,
                   rounds, out_of_order, botvars>>

FormatMarkdown ==
    /\ pc = "spreads"
    /\ \E threshold \in Thresholds :
          text' = format_markdown(prices, spreads, threshold)
    /\ pc' = "text"
    /\ UNCHANGED <<tokens, exchanges, ti, tasks, rate_task, results,
                   usdt_usd, calls, out, stored, prices, spreads, divs,
                   rounds, out_of_order, botvars>>

-----------------------------------------------------------------------------
(* bot.py: texts, settings, the job queue and the command handlers *)

\* Texts are sequences of one-character strings, context.args the sequence
\* of the words after the command; Intern gives a finished token or
\* exchange text the name the rest of the model knows it by.
Lowers == <<"a", "b", "c", "d", "e", "f", "g", "h", "i", "j", "k", "l", "m",
            "n", "o", "p", "q", "r", "s", "t", "u", "v", "w", "x", "y", "z">>
Uppers == <<"A", "B", "C", "D", "E", "F", "G", "H", "I", "J", "K", "L", "M",
            "N", "O", "P", "Q", "R", "S", "T", "U", "V", "W", "X", "Y", "Z">>
Digits == <<"0", "1", "2", "3", "4", "5", "6", "7", "8", "9">>
Place(alphabet, c) == CHOOSE i \in 1..Len(alphabet) : alphabet[i] = c
In(alphabet, c) == \E i \in 1..Len(alphabet) : alphabet[i] = c

\* str.upper, str.lower
upper(s) ==
    [i \in 1..Len(s) |->
        IF In(Lowers, s[i]) THEN Uppers[Place(Lowers, s[i])] ELSE s[i]]
lower(s) ==
    [i \in 1..Len(s) |->
        IF In(Uppers, s[i]) THEN Lowers[Place(Uppers, s[i])] ELSE s[i]]

\* str.strip
RECURSIVE strip(_)
strip(s) ==
    IF s # <<>> /\ s[1] = " " THEN strip(Tail(s))
    ELSE IF s # <<>> /\ s[Len(s)] = " " THEN strip(SubSeq(s, 1, Len(s) - 1))
    ELSE s

\* " ".join(words)
RECURSIVE join(_)
join(words) ==
    IF words = <<>> THEN <<>>
    ELSE IF Len(words) = 1 THEN words[1]
    ELSE words[1] \o <<" ">> \o join(Tail(words))

\* s.split(",")
RECURSIVE split(_)
split(s) ==
    IF ~In(s, ",") THEN <<s>>
    ELSE LET p == CHOOSE i \in 1..Len(s) :
                     s[i] = "," /\ \A j \in 1..(i - 1) : s[j] # ","
         IN <<SubSeq(s, 1, p - 1)>> \o split(SubSeq(s, p + 1, Len(s)))

Spell ==
    [BTC |-> BTC, ETH |-> ETH, SOL |-> SOL, BNB |-> BNB,
     binance  |-> <<"b", "i", "n", "a", "n", "c", "e">>,
     coinbase |-> <<"c", "o", "i", "n", "b", "a", "s", "e">>,
     kraken   |-> <<"k", "r", "a", "k", "e", "n">>,
     kucoin   |-> <<"k", "u", "c", "o", "i", "n">>,
     bybit    |-> <<"b", "y", "b", "i", "t">>,
     okx      |-> <<"o", "k", "x">>,
     bitstamp |-> <<"b", "i", "t", "s", "t", "a", "m", "p">>]
Intern(s) == CHOOSE n \in DOMAIN Spell : Spell[n] = s
Comma == <<",">>
RECURSIVE CommaList(_)
CommaList(names) ==
    IF names = <<>> THEN <<>>
    ELSE IF Len(names) = 1 THEN Spell[names[1]]
    ELSE Spell[names[1]] \o Comma \o CommaList(Tail(names))

\* int(text) and float(text), for the texts made of digits, a sign and a
\* point; a text float() accepts and int() rejects is one with a point.
IsDigits(s) == s # <<>> /\ \A i \in 1..Len(s) : In(Digits, s[i])
RECURSIVE Decimal(_)
Decimal(s) ==
    IF s = <<>> THEN 0
    ELSE Decimal(SubSeq(s, 1, Len(s) - 1)) * 10 + Place(Digits, s[Len(s)]) - 1
RECURSIVE PowerOfTen(_)
PowerOfTen(n) == IF n = 0 THEN 1 ELSE 10 * PowerOfTen(n - 1)
int(s) ==
    IF IsDigits(s) THEN ROk(Decimal(s))
    ELSE IF s # <<>> /\ s[1] = "-" /\ IsDigits(Tail(s))
         THEN ROk(0 - Decimal(Tail(s)))
    ELSE RExc
float(s) ==
    IF int(s).kind = "ok" THEN ROk(Float(int(s).val))
    ELSE IF In(s, ".")
         THEN LET p == Place(s, ".")
                  whole == SubSeq(s, 1, p - 1)
                  frac == SubSeq(s, p + 1, Len(s))
              IN IF IsDigits(whole) /\ IsDigits(frac)
                 THEN ROk([num |-> Decimal(whole \o frac),
                           den |-> PowerOfTen(Len(frac))])
                 ELSE RExc
    ELSE RExc

\* Python dict with unordered use: a function on its keys
Put(d, k, v) == [x \in DOMAIN d \cup {k} |-> IF x = k THEN v ELSE d[x]]
setdefault(d, k, v) == IF k \in DOMAIN d THEN d ELSE Put(d, k, v)

\* A list object is known by a reference; the two module-level lists have
\* owner 0, a list a handler builds for a chat has that chat as owner.
Ref(owner, field) == [owner |-> owner, field |-> field]
NamesOf(parts) == [i \in 1..Len(parts) |-> Intern(parts[i])]

\* The module-level defaults, the environment variables being unset
DEFAULT_TOKENS == NamesOf(split(CommaList(<<"BTC", "ETH", "SOL", "BNB">>)))
DEFAULT_THRESHOLD == float(<<"0", ".", "5">>).val
DEFAULT_INTERVAL == int(<<"6", "0">>).val
DEFAULT_EXCHANGES ==
    LET parts == split(CommaList(<<"binance", "coinbase", "kraken", "kucoin",
                                   "bybit", "okx", "bitstamp">>))
    IN NamesOf([i \in 1..Len(parts) |-> strip(parts[i])])

\* The dict literal start and once hand to setdefault: it refers to the
\* default lists themselves
Defaults ==
    [tokens    |-> Ref(0, "tokens"),
     threshold |-> DEFAULT_THRESHOLD,
     interval  |-> DEFAULT_INTERVAL,
     exchanges |-> Ref(0, "exchanges")]

\* [t.strip().upper() for t in " ".join(context.args).split(",") if t.strip()]
NonBlank(t) == strip(t) # <<>>
ParseTokens(args) ==
    LET kept == SelectSeq(split(join(args)), NonBlank)
    IN NamesOf([i \in 1..Len(kept) |-> upper(strip(kept[i]))])
\* [e.strip().lower() for e in " ".join(context.args).split(",") if e.strip()]
ParseExchanges(args) ==
    LET kept == SelectSeq(split(join(args)), NonBlank)
    IN NamesOf([i \in 1..Len(kept) |-> lower(strip(kept[i]))])

\* The job queue: run_repeating adds a job, get_jobs_by_name(name) finds the
\* jobs of that name, schedule_removal takes a job off the queue.
Job(chat_id, interval) ==
    [name |-> ToString(chat_id), chat_id |-> chat_id, interval |-> interval]
get_jobs_by_name(name) == {i \in 1..Len(jobs) : jobs[i].name = name}
schedule_removal(found) ==
    LET RECURSIVE Rest(_)
        Rest(i) ==
            IF i > Len(jobs) THEN <<>>
            ELSE IF i \in found THEN Rest(i + 1)
            ELSE <<jobs[i]>> \o Rest(i + 1)
    IN Rest(1)

Handled(cmd, chat_id, outcome) ==
    [cmd |-> cmd, chat |-> chat_id, outcome |-> outcome]

\* The bot variables when the module has been loaded
Loaded ==
    /\ CHAT_SETTINGS = <<>>
    /\ heap = [r \in {Ref(0, "tokens"), Ref(0, "exchanges")} |->
                  IF r.field = "tokens" THEN DEFAULT_TOKENS
                  ELSE DEFAULT_EXCHANGES]
    /\ jobs = <<>>
    /\ last_cmd = Handled("none", 0, "none")

\* Mutant of start: the new job scheduled without the removal of the jobs
\* the chat already has
startNoRemoval(chat_id) ==
    LET settings == setdefault(CHAT_SETTINGS, chat_id, Defaults)
        cfg == settings[chat_id]
    IN /\ CHAT_SETTINGS' = settings
       /\ IF "interval" \notin DOMAIN cfg
          THEN /\ jobs' = jobs
               /\ last_cmd' = Handled("start", chat_id, "KeyError")
          ELSE /\ jobs' = Append(jobs, Job(chat_id, cfg["interval"]))
               /\ last_cmd' = Handled("start", chat_id,
                             IF {"threshold", "tokens"} \subseteq DOMAIN cfg
                             THEN "ok" ELSE "KeyError")
       /\ UNCHANGED <<heap, snapvars>>

\* start: the settings are created if the chat has none, the chat's jobs are
\* removed and a new one scheduled, and the reply is sent.  cfg["interval"]
\* raises KeyError before anything is scheduled, cfg['threshold'] and
\* cfg['tokens'] raise it after, when the chat's dict lacks the key.
start(chat_id) ==
    LET settings == setdefault(CHAT_SETTINGS, chat_id, Defaults)
        cfg == settings[chat_id]
    IN /\ CHAT_SETTINGS' = settings
       /\ IF "interval" \notin DOMAIN cfg
          THEN /\ jobs' = jobs
               /\ last_cmd' = Handled("start", chat_id, "KeyError")
          ELSE /\ jobs' = Append(
                     schedule_removal(get_jobs_by_name(ToString(chat_id))),
                     Job(chat_id, cfg["interval"]))
               /\ last_cmd' = Handled("start", chat_id,
                             IF {"threshold", "tokens"} \subseteq DOMAIN cfg
                             THEN "ok" ELSE "KeyError")
       /\ UNCHANGED <<heap, snapvars>>

stop(chat_id) ==
    /\ jobs' = schedule_removal(get_jobs_by_name(ToString(chat_id)))
    /\ last_cmd' = Handled("stop", chat_id, "ok")
    /\ UNCHANGED <<CHAT_SETTINGS, heap, snapvars>>

\* once: the settings are created if the chat has none; send_snapshot is
\* then called with a context whose job has an attribute job and no
\* chat_id, so its first line raises AttributeError.
once(chat_id) ==
    /\ CHAT_SETTINGS' = setdefault(CHAT_SETTINGS, chat_id, Defaults)
    /\ last_cmd' = Handled("once", chat_id, "AttributeError")
    /\ UNCHANGED <<heap, jobs, snapvars>>

\* CHAT_SETTINGS.setdefault(chat_id, {})[key] = val
SetField(chat_id, key, val) ==
    LET cfg == IF chat_id \in DOMAIN CHAT_SETTINGS
               THEN CHAT_SETTINGS[chat_id] ELSE <<>>
    IN Put(CHAT_SETTINGS, chat_id, Put(cfg, key, val))

\* float(context.args[0]); any exception (no argument, not a number) gives
\* the usage reply
set_threshold(chat_id, args) ==
    LET val == IF args = <<>> THEN RExc ELSE float(args[1])
    IN /\ IF val.kind = "ok"
          THEN /\ CHAT_SETTINGS' = SetField(chat_id, "threshold", val.val)
               /\ last_cmd' = Handled("set_threshold", chat_id, "ok")
          ELSE /\ CHAT_SETTINGS' = CHAT_SETTINGS
               /\ last_cmd' = Handled("set_threshold", chat_id, "usage")
       /\ UNCHANGED <<heap, jobs, snapvars>>

set_interval(chat_id, args) ==
    LET sec == IF args = <<>> THEN RExc ELSE int(args[1])
    IN /\ IF sec.kind = "ok"
          THEN /\ CHAT_SETTINGS' = SetField(chat_id, "interval", sec.val)
               /\ last_cmd' = Handled("set_interval", chat_id, "ok")
          ELSE /\ CHAT_SETTINGS' = CHAT_SETTINGS
               /\ last_cmd' = Handled("set_interval", chat_id, "usage")
       /\ UNCHANGED <<heap, jobs, snapvars>>

\* Mutant of set_tokens: the new tokens written into the list the chat's
\* settings refer to, when they refer to one
set_tokensInPlace(chat_id, args) ==
    IF args = <<>>
    THEN /\ last_cmd' = Handled("set_tokens", chat_id, "usage")
         /\ UNCHANGED <<CHAT_SETTINGS, heap, jobs, snapvars>>
    ELSE LET cfg == setdefault(CHAT_SETTINGS, chat_id, <<>>)[chat_id]
             ref == IF "tokens" \in DOMAIN cfg THEN cfg["tokens"]
                    ELSE Ref(chat_id, "tokens")
         IN /\ heap' = Put(heap, ref, ParseTokens(args))
            /\ CHAT_SETTINGS' = SetField(chat_id, "tokens", ref)
            /\ last_cmd' = Handled("set_tokens", chat_id, "ok")
            /\ UNCHANGED <<jobs, snapvars>>

\* set_tokens binds the key to a list built by the handler
set_tokens(chat_id, args) ==
    IF args = <<>>
    THEN /\ last_cmd' = Handled("set_tokens", chat_id, "usage")
         /\ UNCHANGED <<CHAT_SETTINGS, heap, jobs, snapvars>>
    ELSE /\ heap' = Put(heap, Ref(chat_id, "tokens"), ParseTokens(args))
         /\ CHAT_SETTINGS' = SetField(chat_id, "tokens", Ref(chat_id, "tokens"))
         /\ last_cmd' = Handled("set_tokens", chat_id, "ok")
         /\ UNCHANGED <<jobs, snapvars>>

set_exchanges(chat_id, args) ==
    IF args = <<>>
    THEN /\ last_cmd' = Handled("set_exchanges", chat_id, "usage")
         /\ UNCHANGED <<CHAT_SETTINGS, heap, jobs, snapvars>>
    ELSE /\ heap' = Put(heap, Ref(chat_id, "exchanges"), ParseExchanges(args))
         /\ CHAT_SETTINGS' =
               SetField(chat_id, "exchanges", Ref(chat_id, "exchanges"))
         /\ last_cmd' = Handled("set_exchanges", chat_id, "ok")
         /\ UNCHANGED <<jobs, snapvars>>

\* status reads the settings with cfg.get and defaults of its own
status(chat_id) ==
    /\ last_cmd' = Handled("status", chat_id, "ok")
    /\ UNCHANGED <<CHAT_SETTINGS, heap, jobs, snapvars>>

help_cmd(chat_id) ==
    /\ last_cmd' = Handled("help", chat_id, "ok")
    /\ UNCHANGED <<CHAT_SETTINGS, heap, jobs, snapvars>>

-----------------------------------------------------------------------------
(* The aggregation rounds of one snapshot *)

\* Tokens: all pairs listed, some pairs not listed, unknown to the registry.
\* Exchanges: one adapter of each shape (binance takes the quote from the
\* symbol, coinbase and kraken report USD, okx parses inside try/except)
\* and one without an adapter.
TokenInputs == {"BTC", "BNB", "DOGE"}
ExchangeInputs == {"binance", "coinbase", "kraken", "okx", "ftx"}

SeqsUpTo(S, n) == UNION {[1..k -> S] : k \in 0..n}

Init ==
    /\ tokens \in SeqsUpTo(TokenInputs, MaxTasks)
    /\ exchanges \in SeqsUpTo(ExchangeInputs, MaxTasks)
    /\ Len(tokens) * Len(exchanges) <= MaxTasks
    /\ ti = 1
    /\ pc = "call"
    /\ tasks = <<>>
    /\ rate_task = Pending
    /\ results = <<>>
    /\ usdt_usd = 1
    /\ calls = [ex \in ExchangeInputs |-> 0]
    /\ out = <<>>
    /\ stored = <<>>
    /\ prices = <<>>
    /\ spreads = <<>>
    /\ text = <<>>
    /\ divs = 0
    /\ rounds = <<>>
    /\ out_of_order = FALSE
    /\ Loaded

Next ==
    \/ Launch
    \/ \E i \in 1..Len(tasks) : AdapterComplete(i)
    \/ RateComplete
    \/ GatherReturn
    \/ RoundReturn
    \/ RoundRaise
    \/ AllReturn

Spec == Init /\ [][Next]_vars

-----------------------------------------------------------------------------
(* The spread calculator and the renderer on the maps the rounds can return *)

SpreadTokens == {"BTC", "BNB"}
SpreadExchanges == {"binance", "coinbase", "kraken"}

\* Dicts with up to n entries, keys from K (each at most once), values from V
DictsUpTo(K, V, n) ==
    LET distinct == {d \in SeqsUpTo(K \X V, n) :
                        \A i, j \in 1..Len(d) : d[i][1] = d[j][1] => i = j}
    IN {d : d \in distinct}

PriceMaps == DictsUpTo(SpreadExchanges, PriceVals, MaxEntries)

SpreadInit ==
    /\ \/ prices = <<>>
       \/ \E t \in SpreadTokens, m \in PriceMaps : prices = <<<<t, m>>>>
       \/ \E t1 \in SpreadTokens, t2 \in SpreadTokens :
             \E m1 \in PriceMaps, m2 \in PriceMaps :
                /\ t1 # t2
                /\ Len(m1) + Len(m2) <= MaxEntries
                /\ prices = <<<<t1, m1>>, <<t2, m2>>>>
    /\ pc = "done"
    /\ tokens = <<>>
    /\ exchanges = <<>>
    /\ ti = 1
    /\ tasks = <<>>
    /\ rate_task = Pending
    /\ results = <<>>
    /\ usdt_usd = 1
    /\ calls = [ex \in ExchangeInputs |-> 0]
    /\ out = <<>>
    /\ stored = <<>>
    /\ spreads = <<>>
    /\ text = <<>>
    /\ divs = 0
    /\ rounds = <<>>
    /\ out_of_order = FALSE
    /\ Loaded

SpreadNext ==
    \/ ComputeSpreads
    \/ FormatMarkdown

SpreadSpec == SpreadInit /\ [][SpreadNext]_vars

-----------------------------------------------------------------------------
(* The commands of the chats *)

\* Two chats, and for each setter no argument, a text it accepts and, for
\* the numeric ones, a text it rejects
Chats == {1, 2}
ThresholdArgs == {<<>>, <<<<"a", "b", "c">>>>, <<<<"2">>>>}
IntervalArgs == {<<>>, <<<<"2", ".", "5">>>>, <<<<"3", "0">>>>}
TokenArgs == {<<>>, <<<<"e", "t", "h", ",">>, <<"s", "o", "l">>>>}
ExchangeArgs == {<<>>, <<<<"K", "r", "a", "k", "e", "n">>>>}

BotInit ==
    /\ Loaded
    /\ tokens = <<>>
    /\ exchanges = <<>>
    /\ ti = 1
    /\ pc = "call"
    /\ tasks = <<>>
    /\ rate_task = Pending
    /\ results = <<>>
    /\ usdt_usd = 1
    /\ calls = [ex \in ExchangeInputs |-> 0]
    /\ out = <<>>
    /\ stored = <<>>
    /\ prices = <<>>
    /\ spreads = <<>>
    /\ text = <<>>
    /\ divs = 0
    /\ rounds = <<>>
    /\ out_of_order = FALSE

BotNext ==
    \E chat_id \in Chats :
        \/ start(chat_id)
        \/ stop(chat_id)
        \/ once(chat_id)
        \/ \E args \in ThresholdArgs : set_threshold(chat_id, args)
        \/ \E args \in IntervalArgs : set_interval(chat_id, args)
        \/ \E args \in TokenArgs : set_tokens(chat_id, args)
        \/ \E args \in ExchangeArgs : set_exchanges(chat_id, args)
        \/ status(chat_id)
        \/ help_cmd(chat_id)

BotSpec == BotInit /\ [][BotNext]_vars

-----------------------------------------------------------------------------
(* Properties of the aggregation round (specification Spec) *)

\* The last round launched has returned: tasks, results, usdt_usd, stored
\* and out are those of the round for tokens[ti - 1].
RoundReturned == pc \in {"call", "done"} /\ ti > 1
LastToken == tokens[ti - 1]

Usable(i) == tasks[i].state = "done" /\ tasks[i].res.kind = "ok"
Failed(i) == tasks[i].state = "done" /\ tasks[i].res.kind \in {"none", "exc"}
UsableTasks == {i \in 1..Len(tasks) : Usable(i)}

\* C1: when a round returns, every exchange whose adapter returned a usable
\* (price, quote) is a key of the returned PriceMap, whatever the other
\* adapters of the round did (returned None or raised).
C1_PartialFailureTolerance ==
    RoundReturned =>
        \A i \in 1..Len(tasks) : Usable(i) => DictHas(out, tasks[i].ex)

\* C1 witness: a round returned in which one adapter raised, one returned
\* a usable price, and the usable one is in the PriceMap.
C1_Witness ==
    /\ RoundReturned
    /\ \E i, j \in 1..Len(tasks) :
          /\ tasks[i].res.kind = "exc"
          /\ i < j
          /\ Usable(j)
          /\ tasks[i].ex # tasks[j].ex
          /\ DictHas(out, tasks[j].ex)
          /\ ~DictHas(out, tasks[i].ex)

\* C2: an exchange of the requested list for which the registry has no
\* symbol for the token (unknown token, missing key or None) has no adapter
\* coroutine created during the round and is not a key of the PriceMap the
\* round returns.
C2_UnmappedNeverCalled ==
    /\ pc \in {"gather", "rate", "raised"} =>
          \A k \in 1..Len(exchanges) :
             Lookup(tokens[ti], exchanges[k]).isNone =>
                /\ calls[exchanges[k]] = 0
                /\ \A i \in 1..Len(tasks) : tasks[i].ex # exchanges[k]
    /\ RoundReturned =>
          \A k \in 1..Len(exchanges) :
             Lookup(LastToken, exchanges[k]).isNone =>
                /\ calls[exchanges[k]] = 0
                /\ \A i \in 1..Len(tasks) : tasks[i].ex # exchanges[k]
                /\ ~DictHas(out, exchanges[k])

\* C2 witness: a round returned for a token the registry maps to None on an
\* exchange that has an adapter, next to an exchange that delivered a price.
C2_Witness ==
    /\ RoundReturned
    /\ \E k, j \in 1..Len(exchanges) :
          /\ exchanges[k] \in ExchangeNames
          /\ LastToken \in DOMAIN SYMBOLS
          /\ exchanges[k] \in DOMAIN SYMBOLS[LastToken]
          /\ Lookup(LastToken, exchanges[k]).isNone
          /\ calls[exchanges[k]] = 0
          /\ DictHas(out, exchanges[j])
          /\ calls[exchanges[j]] = 1

\* C3 (the claim as stated): every entry of a returned PriceMap is strictly
\* positive.
C3_PriceMapPositive ==
    RoundReturned => \A i \in 1..Len(out) : out[i][2] > 0

\* What the claim of C4 says is stored for usable result i
ExpectedStore(i) ==
    LET p == tasks[i].res.val[1]
        q == tasks[i].res.val[2]
    IN <<tasks[i].ex, IF q = "USDT" THEN p * usdt_usd ELSE p>>

\* C4: an adapter reports USDT exactly when its instrument symbol ends in
\* "USDT" and USD otherwise; the round stores, for each usable result
\* (p, quote) in task order, p * r for USDT and p for USD, r being the
\* awaited rate; and the value the PriceMap holds under an exchange is the
\* one stored for that exchange's last usable result.
C4_Normalization ==
    /\ \A i \in UsableTasks :
          tasks[i].res.val[2] =
             (IF EndsWith(tasks[i].sym.val, USDT) THEN "USDT" ELSE "USD")
    /\ RoundReturned =>
          /\ Len(stored) = Cardinality(UsableTasks)
          /\ \A i \in UsableTasks :
                stored[Cardinality({j \in UsableTasks : j <= i})]
                   = ExpectedStore(i)
          /\ \A ex \in DictKeys(out) :
                LET last == CHOOSE i \in UsableTasks :
                               /\ tasks[i].ex = ex
                               /\ \A j \in UsableTasks :
                                     tasks[j].ex = ex => j <= i
                IN DictGet(out, ex) = ExpectedStore(last)[2]

\* C4 witness: a round returned with rate 2 in which a USDT-quoted price 1
\* was stored as 2 and a USD-quoted price 1 as 1.
C4_Witness ==
    /\ RoundReturned
    /\ usdt_usd = 2
    /\ \E i, j \in UsableTasks :
          /\ tasks[i].res.val = <<1, "USDT">>
          /\ tasks[j].res.val = <<1, "USD">>
          /\ DictGet(out, tasks[i].ex) = 2
          /\ DictGet(out, tasks[j].ex) = 1

\* C5 (the claim as stated): whenever the reference ticker call fails, the
\* rate fetch yields 1.0 and the round is not aborted.
C5_RateFallback ==
    (rate_task.state = "done" /\ rate_task.failed) =>
        (rate_task.res = ROk(1) /\ pc # "raised")

\* C6 (the claim as stated): no round raises, and a round in which every
\* adapter failed returns the empty PriceMap, whose report is "no data".
C6_NoErrorCrossesBoundary ==
    /\ pc # "raised"
    /\ (RoundReturned /\ \A i \in 1..Len(tasks) : Failed(i)) =>
          /\ out = <<>>
          /\ DictGet(prices, LastToken) = <<>>
          /\ DictGet(compute_spreads(prices).out, LastToken)
                = [table |-> <<>>, summary |-> NoData]

-----------------------------------------------------------------------------
(* Properties of the spread calculator (specification SpreadSpec) *)

\* compute_spreads has run on prices
Reported == pc \in {"spreads", "text"}

InputMap(k) == prices[k][2]
ReportOf(k) == DictGet(spreads, prices[k][1])
NonEmpty == {k \in 1..Len(prices) : InputMap(k) # <<>>}
Empty == {k \in 1..Len(prices) : InputMap(k) = <<>>}

\* C7: for every non-empty PriceMap the table of its report is ascending by
\* price and holds exactly the (exchange, price) pairs of the map, each once.
C7_TableSortedPermutation ==
    Reported =>
        \A k \in NonEmpty :
           LET table == ReportOf(k).table
               mp == InputMap(k)
           IN /\ \A i, j \in 1..Len(table) :
                    i < j => table[i][2] <= table[j][2]
              /\ Len(table) = Len(mp)
              /\ {table[i] : i \in 1..Len(table)} = {mp[i] : i \in 1..Len(mp)}
              /\ \A i, j \in 1..Len(table) : table[i] = table[j] => i = j

\* C7 witness: a report for a map of three entries given in descending
\* price order, so that the table differs from the input order.
C7_Witness ==
    /\ Reported
    /\ \E k \in NonEmpty :
          /\ Len(InputMap(k)) = 3
          /\ InputMap(k)[1][2] > InputMap(k)[2][2]
          /\ InputMap(k)[2][2] > InputMap(k)[3][2]
          /\ ReportOf(k).table[1] = InputMap(k)[3]
          /\ ReportOf(k).table[3] = InputMap(k)[1]

\* C8: for every non-empty PriceMap, min is an entry of the map with the
\* least price and max one with the greatest, best_buy is the pair min and
\* best_sell the pair max.
C8_MinMaxAliases ==
    Reported =>
        \A k \in NonEmpty :
           LET r == ReportOf(k)
               mp == InputMap(k)
               entries == {mp[i] : i \in 1..Len(mp)}
           IN /\ r.min \in entries
              /\ r.max \in entries
              /\ \A e \in entries : r.min[2] <= e[2] /\ e[2] <= r.max[2]
              /\ r.best_buy = r.min
              /\ r.best_sell = r.max

\* C8 witness: a report whose min and max are different exchanges at
\* different prices.
C8_Witness ==
    /\ Reported
    /\ \E k \in NonEmpty :
          /\ ReportOf(k).min[2] < ReportOf(k).max[2]
          /\ ReportOf(k).best_buy[1] # ReportOf(k).best_sell[1]

\* C9 (the claim as stated): in every populated report spread_abs >= 0 and
\* spread_pct >= 0.
C9_SpreadsNonNegative ==
    Reported =>
        \A k \in NonEmpty :
           /\ ReportOf(k).spread_abs >= 0
           /\ GE(ReportOf(k).spread_pct, 0)

\* Whether line a is directly followed by line b in the rendered text
Adjacent(lines, a, b) ==
    \E i \in 1..(Len(lines) - 1) : lines[i] = a /\ lines[i + 1] = b

\* C10: a token whose PriceMap is empty gets exactly the report
\* {table: [], summary: "no data"}, with none of min, max, spread_abs,
\* spread_pct, best_buy, best_sell; compute_spreads divides at most once per
\* non-empty map and so never for an empty one; and format_markdown renders
\* the token as its heading followed by the "no data" line, without a
\* KeyError.
C10_EmptyMapNoData ==
    /\ Reported =>
          /\ \A k \in Empty :
                /\ ReportOf(k) = [table |-> <<>>, summary |-> NoData]
                /\ DOMAIN ReportOf(k) = {"table", "summary"}
          /\ divs <= Cardinality(NonEmpty)
    /\ pc = "text" =>
          /\ text.ok
          /\ \A k \in Empty :
                Adjacent(text.lines, <<"token", prices[k][1]>>,
                         <<"_no data_">>)

\* C10 witness: a rendered snapshot of two tokens, the first with an empty
\* PriceMap and the second with prices.
C10_Witness ==
    /\ pc = "text"
    /\ Len(prices) = 2
    /\ InputMap(1) = <<>>
    /\ Len(InputMap(2)) >= 2
    /\ divs = 1
    /\ text.ok

\* The least and the greatest price of the k-th map, and the place of an
\* entry in the map's iteration order
Least(k) ==
    CHOOSE p \in {InputMap(k)[i][2] : i \in 1..Len(InputMap(k))} :
        \A i \in 1..Len(InputMap(k)) : p <= InputMap(k)[i][2]
Greatest(k) ==
    CHOOSE p \in {InputMap(k)[i][2] : i \in 1..Len(InputMap(k))} :
        \A i \in 1..Len(InputMap(k)) : p >= InputMap(k)[i][2]
PlaceIn(k, kv) == CHOOSE i \in 1..Len(InputMap(k)) : InputMap(k)[i] = kv

\* C11: when the least price of a non-empty map is 0, spread_pct is 0.0;
\* every spread_pct is a number, and compute_spreads divides exactly once
\* for each map whose least price is not 0, so never by zero.
C11_ZeroMinGuard ==
    Reported =>
        /\ \A k \in NonEmpty :
              /\ IsNumber(ReportOf(k).spread_pct)
              /\ Least(k) = 0 =>
                    /\ ReportOf(k).spread_pct = Float(0)
                    /\ IsZero(ReportOf(k).spread_pct)
        /\ divs = Cardinality({k \in NonEmpty : Least(k) # 0})

\* C11 witness: a report for a map whose least price is 0 and whose greatest
\* is not, made without a division.
C11_Witness ==
    /\ Reported
    /\ Len(prices) = 1
    /\ 1 \in NonEmpty
    /\ Least(1) = 0
    /\ ReportOf(1).spread_abs > 0
    /\ ReportOf(1).spread_pct = Float(0)
    /\ divs = 0

\* C17: entries of equal price stand in the table in the order the PriceMap
\* iterates them; min is the first entry of the map among those of least
\* price and max the last among those of greatest price.
C17_StableSort ==
    Reported =>
        \A k \in NonEmpty :
           LET table == ReportOf(k).table
               mp == InputMap(k)
           IN /\ \A i, j \in 1..Len(table) :
                    (i < j /\ table[i][2] = table[j][2]) =>
                        PlaceIn(k, table[i]) < PlaceIn(k, table[j])
              /\ ReportOf(k).min[2] = Least(k)
              /\ \A i \in 1..Len(mp) :
                    mp[i][2] = Least(k) => PlaceIn(k, ReportOf(k).min) <= i
              /\ ReportOf(k).max[2] = Greatest(k)
              /\ \A i \in 1..Len(mp) :
                    mp[i][2] = Greatest(k) => PlaceIn(k, ReportOf(k).max) >= i

\* C17 witness: a report for a map of three entries, the first two tied for
\* the greatest price and the third lesser: the table keeps the tied two in
\* map order and max is the second of them.
C17_Witness ==
    /\ Reported
    /\ \E k \in NonEmpty :
          /\ Len(InputMap(k)) = 3
          /\ InputMap(k)[1][2] = InputMap(k)[2][2]
          /\ InputMap(k)[3][2] < InputMap(k)[1][2]
          /\ ReportOf(k).table
                = <<InputMap(k)[3], InputMap(k)[1], InputMap(k)[2]>>
          /\ ReportOf(k).max = InputMap(k)[2]

-----------------------------------------------------------------------------
(* Properties of fetch_all_prices and of the round's tasks (specification
   Spec) *)

TokenSet == {tokens[i] : i \in 1..Len(tokens)}
\* The last round run for token t
LastRoundOf(t) ==
    CHOOSE i \in 1..Len(tokens) :
        /\ tokens[i] = t
        /\ \A j \in 1..Len(tokens) : tokens[j] = t => j <= i
\* No exchange of the list has a symbol for the i-th token
NoListings(i) ==
    \A k \in 1..Len(exchanges) : Lookup(tokens[i], exchanges[k]).isNone

\* C12: what fetch_all_prices returns has exactly one key per distinct
\* requested token; the value under a token is the PriceMap returned by that
\* token's own (last) round, and it is the empty map for a token without
\* listings, and each round's PriceMap is stored under its own token as soon
\* as the round returns.
C12_KeyedByOwnToken ==
    /\ RoundReturned =>
          /\ DictHas(prices, LastToken)
          /\ DictGet(prices, LastToken) = out
    /\ pc = "done" =>
          /\ Len(rounds) = Len(tokens)
          /\ DictKeys(prices) = TokenSet
          /\ Len(prices) = Cardinality(TokenSet)
          /\ \A t \in TokenSet : DictGet(prices, t) = rounds[LastRoundOf(t)]
          /\ \A i \in 1..Len(tokens) :
                NoListings(i) => DictGet(prices, tokens[i]) = <<>>

\* C12 witness: fetch_all_prices returned for two distinct tokens, the first
\* without listings and mapped to the empty PriceMap, the second mapped to
\* the non-empty PriceMap of its own round.
C12_Witness ==
    /\ pc = "done"
    /\ Len(tokens) = 2
    /\ tokens[1] # tokens[2]
    /\ NoListings(1)
    /\ rounds[2] # <<>>
    /\ DictGet(prices, tokens[1]) = <<>>
    /\ DictGet(prices, tokens[2]) = rounds[2]

\* C13: gather hands the results over in the order of the tasks, whatever
\* the order of completion; every key of the returned PriceMap is the
\* exchange of a task of the round with a usable result, its value the
\* normalised price of such a task of that same exchange; and an exchange
\* none of whose own tasks was usable is not a key.
C13_CorrelatedByIdentity ==
    /\ pc = "rate" \/ RoundReturned =>
          /\ Len(results) = Len(tasks)
          /\ \A i \in 1..Len(tasks) : results[i] = tasks[i].res
    /\ RoundReturned =>
          /\ \A ex \in DictKeys(out) :
                \E i \in UsableTasks :
                   /\ tasks[i].ex = ex
                   /\ DictGet(out, ex) = ExpectedStore(i)[2]
          /\ \A k \in 1..Len(exchanges) :
                (\A i \in UsableTasks : tasks[i].ex # exchanges[k])
                   => ~DictHas(out, exchanges[k])
          /\ \A ex \in DictKeys(out) :
                (\A i, j \in UsableTasks :
                    (tasks[i].ex = ex /\ tasks[j].ex = ex) => i = j)
                   => \A i \in UsableTasks :
                         tasks[i].ex = ex =>
                            DictGet(out, ex) = ExpectedStore(i)[2]

\* C13 witness: a round returned whose two tasks, of different exchanges
\* and with different usable prices, completed in the opposite order of
\* their creation, each price stored under its own exchange.
C13_Witness ==
    /\ RoundReturned
    /\ out_of_order
    /\ Len(tasks) = 2
    /\ UsableTasks = {1, 2}
    /\ tasks[1].ex # tasks[2].ex
    /\ ExpectedStore(1)[2] # ExpectedStore(2)[2]
    /\ DictGet(out, tasks[1].ex) = ExpectedStore(1)[2]
    /\ DictGet(out, tasks[2].ex) = ExpectedStore(2)[2]

\* C14 (the claim as stated): no adapter call ends in an exception; whatever
\* its request came back with, a call that has no price to give returns None.
C14_AdaptersNeverRaise ==
    \A i \in 1..Len(tasks) :
        tasks[i].state = "done" => tasks[i].res.kind \in {"ok", "none"}

\* C15: once gather has returned, and so when the round returns or raises,
\* every adapter task the round launched is done; when the round returns or
\* raises the rate task is done too; no task is left pending.
C15_AllTasksComplete ==
    /\ pc = "rate" => \A i \in 1..Len(tasks) : tasks[i].state = "done"
    /\ (RoundReturned \/ pc = "raised") =>
          /\ \A i \in 1..Len(tasks) : tasks[i].state = "done"
          /\ rate_task.state = "done"

\* C15 witness: a round returned in which the first task to complete was
\* not the first created and failed, while the task created before it went
\* on to deliver a usable price, the rate task being done as well.
C15_Witness ==
    /\ RoundReturned
    /\ out_of_order
    /\ Len(tasks) = 2
    /\ Usable(1)
    /\ Failed(2)
    /\ rate_task.state = "done"
    /\ DictHas(out, tasks[1].ex)

\* C16 (the claim as stated): every round returns and fetch_all_prices
\* returns; in a finite run, the program is either at the return of
\* fetch_all_prices or has a step to take.
C16_EventuallyReturns == pc = "done" \/ ENABLED Next

-----------------------------------------------------------------------------
(* Properties of the command handlers (specification BotSpec) *)

\* The jobs of chat c in queue q
JobsOf(q, c) ==
    LET RECURSIVE Own(_)
        Own(i) ==
            IF i > Len(q) THEN <<>>
            ELSE IF q[i].chat_id = c /\ q[i].name = ToString(c)
                 THEN <<q[i]>> \o Own(i + 1)
            ELSE Own(i + 1)
    IN Own(1)

\* What chat c's settings say, list references followed: no entry, or the
\* dict with the lists themselves in place of the references
Absent == [absent |-> TRUE]
Lists == {"tokens", "exchanges"}
View(settings, objects, c) ==
    IF c \notin DOMAIN settings THEN Absent
    ELSE [k \in DOMAIN settings[c] |->
             IF k \in Lists THEN objects[settings[c][k]] ELSE settings[c][k]]
HasKey(settings, c, k) == c \in DOMAIN settings /\ k \in DOMAIN settings[c]

\* C18 (the claim as stated): whatever commands came before, /start ends
\* without error and the chat then has a repeating job.
C18_StartAlwaysSucceeds ==
    last_cmd.cmd = "start" =>
        /\ last_cmd.outcome = "ok"
        /\ Len(JobsOf(jobs, last_cmd.chat)) >= 1

\* C19: a command leaves every chat with at most one job; /stop leaves its
\* chat with none; /start, unless it fails on the interval, leaves its chat
\* with exactly one, the new job, of the chat's current interval; and no
\* command changes the jobs of a chat other than its own.
C19_OneJobPerChat ==
    [][LET c == last_cmd'.chat
       IN /\ \A d \in Chats : Len(JobsOf(jobs', d)) <= 1
          /\ \A d \in Chats \ {c} : JobsOf(jobs', d) = JobsOf(jobs, d)
          /\ \A i \in 1..Len(jobs') :
                /\ jobs'[i].chat_id \in Chats
                /\ jobs'[i].name = ToString(jobs'[i].chat_id)
          /\ last_cmd'.cmd = "stop" => JobsOf(jobs', c) = <<>>
          /\ (last_cmd'.cmd = "start" /\ HasKey(CHAT_SETTINGS', c, "interval"))
                => JobsOf(jobs', c)
                      = <<Job(c, CHAT_SETTINGS'[c]["interval"])>>
          /\ last_cmd'.cmd \notin {"start", "stop"} => jobs' = jobs
      ]_vars

\* C19 witness: chat 1 has just been started again after a change of its
\* interval: its one job is the new one, and chat 2 still has its own.
C19_Witness ==
    /\ last_cmd = Handled("start", 1, "ok")
    /\ JobsOf(jobs, 1) = <<Job(1, 30)>>
    /\ JobsOf(jobs, 2) = <<Job(2, DEFAULT_INTERVAL)>>
    /\ Len(jobs) = 2

Setters ==
    [set_threshold |-> "threshold", set_interval |-> "interval",
     set_tokens |-> "tokens", set_exchanges |-> "exchanges"]

\* C20: a command changes the settings of no chat but its own, and never
\* the default lists; a setter that accepts its argument changes, in its
\* chat's settings, the named field and nothing else (creating the entry
\* with that one field if the chat had none); one that rejects it changes
\* nothing.
C20_SettingsIsolated ==
    [][LET c == last_cmd'.chat
           cmd == last_cmd'.cmd
       IN /\ \A d \in Chats \ {c} :
                View(CHAT_SETTINGS', heap', d) = View(CHAT_SETTINGS, heap, d)
          /\ heap'[Ref(0, "tokens")] = DEFAULT_TOKENS
          /\ heap'[Ref(0, "exchanges")] = DEFAULT_EXCHANGES
          /\ (cmd \in DOMAIN Setters /\ last_cmd'.outcome = "usage") =>
                View(CHAT_SETTINGS', heap', c) = View(CHAT_SETTINGS, heap, c)
          /\ (cmd \in DOMAIN Setters /\ last_cmd'.outcome = "ok") =>
                /\ HasKey(CHAT_SETTINGS', c, Setters[cmd])
                /\ \A k \in DOMAIN Defaults \ {Setters[cmd]} :
                      /\ HasKey(CHAT_SETTINGS', c, k)
                            <=> HasKey(CHAT_SETTINGS, c, k)
                      /\ HasKey(CHAT_SETTINGS, c, k) =>
                            View(CHAT_SETTINGS', heap', c)[k]
                               = View(CHAT_SETTINGS, heap, c)[k]
      ]_vars

\* C20 witness: chats 1 and 2 both hold the default lists by reference;
\* chat 1 has just set its tokens: it has the new list, its exchanges are
\* still the default list, and chat 2 and the defaults are as they were.
C20_Witness ==
    /\ last_cmd = Handled("set_tokens", 1, "ok")
    /\ HasKey(CHAT_SETTINGS, 1, "exchanges")
    /\ HasKey(CHAT_SETTINGS, 2, "tokens")
    /\ CHAT_SETTINGS[1]["exchanges"] = Ref(0, "exchanges")
    /\ CHAT_SETTINGS[2]["tokens"] = Ref(0, "tokens")
    /\ View(CHAT_SETTINGS, heap, 1)["tokens"] = <<"ETH", "SOL">>
    /\ View(CHAT_SETTINGS, heap, 2)["tokens"] = DEFAULT_TOKENS
    /\ heap[Ref(0, "tokens")] = <<"BTC", "ETH", "SOL", "BNB">>

====
